---- MODULE Spec2Model ----
(***************************************************************************)
(* Difficulty retargeting and proof verification of the hybrid PoW/PoS     *)
(* chain (src/src/rx2_helper.cpp).  The chain is a sequence of block       *)
(* index records; chain[h + 1] is the block of height h and its pprev is   *)
(* the block of height h - 1 (none for the genesis block, height 0).       *)
(*                                                                         *)
(* arith_uint256 is modelled at a reduced scale: a "byte" has DigitBits    *)
(* bits and the integer has WidthDigits such bytes, so every operation     *)
(* wraps modulo 2^(DigitBits * WidthDigits) exactly as the 256-bit         *)
(* operations wrap modulo 2^256.  The compact encoding keeps its layout:   *)
(* a size field above a three-byte mantissa whose top bit is the sign.     *)
(***************************************************************************)
EXTENDS Integers, Sequences, FiniteSets, TLC

VARIABLES chain, ret

\* the seed selector (GetRandomXSeed): the consensus parameters it reads, the
\* active chain it looks blocks up in, its function-local static, the calls
\* returned since the chain last changed and the last call returned, and the position of each calling thread
VARIABLES seedParams, forks, current_key_block, seedSeen, seedPrev,
          seedPc, seedLoc, cs_main

seedVars == <<seedParams, forks, current_key_block, seedSeen, seedPrev,
              seedPc, seedLoc, cs_main>>

\* the hash engine (rx_slow_hash, rx_slow_hash2): the statics of each of the two
\* functions, the arguments of the last call of each, the position and the locals
\* of each calling thread, and the owner of cs_randomx
VARIABLES rx, hashPrev, hashPc, hashLoc, cs_randomx

hashVars == <<rx, hashPrev, hashPc, hashLoc, cs_randomx>>

\* everything outside the retarget core
rxVars == <<seedVars, hashVars>>

vars == <<chain, ret, rxVars>>

\* ------------------------------------------------------------ bounds
\* bits of one "byte" of the scaled arith_uint256 (8 in the program)
DigitBits == 3
\* "bytes" of the scaled arith_uint256 (32 in the program)
WidthDigits == 6
\* the chain grows to this height
MaxHeight == 3
\* largest nContextScope passed to GetContextLWMA by the sampler calls
MaxScope == 3
\* bits of the scaled uint32_t of GetRandomXSeed (32 in the program)
UintBits == 12
\* height of the tip of the active chain the seed selector reads
SeedTip == 1300
\* reorganisations of the active chain in one run
MaxReorgs == 2
\* returned calls of GetRandomXSeed remembered for comparison with later ones
MaxSeen == 2
\* bytes the memo of rx_slow_hash2 compares and keeps (144 in the program)
MemoLen == 2

\* ------------------------------------------------------------ arith_uint256
RECURSIVE Pow2(_)
Pow2(n) == IF n <= 0 THEN 1 ELSE 2 * Pow2(n - 1)

WIDTH == DigitBits * WidthDigits
Modulus == Pow2(WIDTH)
Base == Pow2(DigitBits)
MantBits == 3 * DigitBits
SignBit == Pow2(MantBits - 1)
MantRange == Pow2(MantBits)

\* a * b modulo 2^WIDTH (base_uint::operator*=), computed by doubling so that
\* no intermediate value leaves the range of the checker's integers
RECURSIVE MulMod(_, _)
MulMod(a, b) ==
    IF b = 0 THEN 0
    ELSE LET h == MulMod(a, b \div 2)
         IN  (2 * h + (IF b % 2 = 1 THEN a ELSE 0)) % Modulus

AddMod(a, b) == (a + b) % Modulus
SubMod(a, b) == (a - b + Modulus) % Modulus

\* base_uint::bits(): position of the highest set bit plus one, 0 for 0
RECURSIVE BitLen(_)
BitLen(v) == IF v = 0 THEN 0 ELSE 1 + BitLen(v \div 2)

\* v << (DigitBits * d), wrapped to the width
RECURSIVE ShlDigits(_, _)
ShlDigits(v, d) == IF d <= 0 \/ v = 0 THEN v ELSE ShlDigits(MulMod(v, Base), d - 1)

\* v >> (DigitBits * d)
RECURSIVE ShrDigits(_, _)
ShrDigits(v, d) == IF d <= 0 \/ v = 0 THEN v ELSE ShrDigits(v \div Base, d - 1)

\* the fields of a compact value
CompactSize(nCompact) == nCompact \div MantRange
CompactWord(nCompact) == nCompact % SignBit
CompactSign(nCompact) == (nCompact \div SignBit) % 2 = 1
MakeCompact(nSize, nMant) == nSize * MantRange + nMant

\* arith_uint256::SetCompact: the decoded value and the two flags
SetCompact(nCompact) ==
    LET nSize == CompactSize(nCompact)
        nWord == IF nSize <= 3 THEN ShrDigits(CompactWord(nCompact), 3 - nSize)
                 ELSE CompactWord(nCompact)
        value == IF nSize <= 3 THEN nWord ELSE ShlDigits(nWord, nSize - 3)
    IN  [value     |-> value,
         fNegative |-> nWord # 0 /\ CompactSign(nCompact),
         fOverflow |-> nWord # 0 /\ (\/ nSize > WidthDigits + 2
                                     \/ (nWord > Base - 1 /\ nSize > WidthDigits + 1)
                                     \/ (nWord > Base * Base - 1 /\ nSize > WidthDigits))]

\* arith_uint256::GetCompact of a non-negative value
GetCompact(v) ==
    LET nSize0 == (BitLen(v) + DigitBits - 1) \div DigitBits
        nC0    == IF nSize0 <= 3 THEN ShlDigits(v, 3 - nSize0) ELSE ShrDigits(v, nSize0 - 3)
        carry  == (nC0 \div SignBit) % 2 = 1
        nC     == IF carry THEN nC0 \div Base ELSE nC0
        nSize  == IF carry THEN nSize0 + 1 ELSE nSize0
    IN  MakeCompact(nSize, nC)

Decode(nCompact) == SetCompact(nCompact).value

\* ------------------------------------------------------------ consensus parameters
\* The proof limits keep leading zero "bytes" as the networks' limits do
\* (0000ffff..., 00000000ffff...).
PowLimit == Pow2(WIDTH - DigitBits) - 1
PosLimit == Pow2(WIDTH - 2 * DigitBits) - 1
QIP9PosLimit == Pow2(WIDTH - 2 * DigitBits - 2) - 1
RBTPosLimit == Pow2(WIDTH - 2 * DigitBits - 1) - 1

\* Consensus::Params as the retarget functions read it
ConsensusParams(fPowNoRet, fPoSNoRet) ==
    [lwmaAveragingWindow    |-> 2,
     nPowTargetSpacing      |-> 4,
     nRBTPowTargetSpacing   |-> 2,
     nPowTargetTimespan     |-> 16,
     nPowTargetTimespanV2   |-> 32,
     nRBTPowTargetTimespan  |-> 16,
     QIP9Height             |-> 3,
     nReduceBlocktimeHeight |-> 4,
     nStakeTimestampMask    |-> 1,
     nRBTStakeTimestampMask |-> 0,
     powLimit               |-> PowLimit,
     posLimit               |-> PosLimit,
     QIP9PosLimit           |-> QIP9PosLimit,
     RBTPosLimit            |-> RBTPosLimit,
     fPowNoRetargeting      |-> fPowNoRet,
     fPoSNoRetargeting      |-> fPoSNoRet]

\* Params::TargetSpacing, TargetTimespan, DifficultyAdjustmentInterval, StakeTimestampMask
TargetSpacing(params, height) ==
    IF height < params.nReduceBlocktimeHeight THEN params.nPowTargetSpacing
    ELSE params.nRBTPowTargetSpacing

TargetTimespan(params, height) ==
    IF height < params.QIP9Height THEN params.nPowTargetTimespan
    ELSE IF height < params.nReduceBlocktimeHeight THEN params.nPowTargetTimespanV2
    ELSE params.nRBTPowTargetTimespan

DifficultyAdjustmentInterval(params, height) ==
    TargetTimespan(params, height) \div TargetSpacing(params, height)

StakeTimestampMask(params, height) ==
    IF height < params.nReduceBlocktimeHeight THEN params.nStakeTimestampMask
    ELSE params.nRBTStakeTimestampMask

\* ------------------------------------------------------------ chain walks
\* CBlockIndex: IsProofOfStake(), GetBlockTime(), nBits; nHeight is the position
Block(pos, nTime, nBits) == [pos |-> pos, nTime |-> nTime, nBits |-> nBits]

\* the genesis block is a proof-of-work block
Genesis(nBits) == Block(FALSE, 0, nBits)

TipHeight(c) == Len(c) - 1
\* pindexLast->GetAncestor(height)
GetAncestor(c, height) == c[height + 1]

\* pindex->IsProofOfStake() != fProofOfStake
IsOtherKind(block, fProofOfStake) == block.pos # fProofOfStake

\* faulty variant of GetLastBlockIndex: the walk is left out
GetLastBlockIndexNoWalk(c, h, fProofOfStake) == h

\* GetLastBlockIndex: the height the walk stops at (the genesis block when no
\* block of the kind is met)
RECURSIVE GetLastBlockIndex(_, _, _)
GetLastBlockIndex(c, h, fProofOfStake) ==
    IF h > 0 /\ IsOtherKind(GetAncestor(c, h), fProofOfStake)
    THEN GetLastBlockIndex(c, h - 1, fProofOfStake)
    ELSE h

\* CountPoS
RECURSIVE CountPoS(_, _, _)
CountPoS(c, h, nHeightScan) ==
    IF h > 0 /\ h > nHeightScan
    THEN (IF GetAncestor(c, h).pos THEN 1 ELSE 0) + CountPoS(c, h - 1, nHeightScan)
    ELSE 0

\* std::map<int,int>::insert: an existing key is kept
MapInsert(m, k, v) == IF k \in DOMAIN m THEN m ELSE m @@ (k :> v)
MapSize(m) == Cardinality(DOMAIN m)

\* faulty variant of ContextLoopGuard: the walk stops two entries early
ContextLoopGuardEarly(h, nIdx, nContextScope) ==
    h > 0 /\ nIdx < nContextScope - 1

\* the loop test of GetContextLWMA: pindex && pindex->pprev && nIdx <= nContextScope
ContextLoopGuard(h, nIdx, nContextScope) == h > 0 /\ nIdx <= nContextScope

\* faulty variant of ContextMatches: both loops test IsProofOfStake()
ContextMatchesStake(block, fProofOfStake) == block.pos

\* the block test of GetContextLWMA: IsProofOfStake() in the loop taken for
\* fProofOfStake, IsProofOfWork() in the loop taken otherwise
ContextMatches(block, fProofOfStake) ==
    IF fProofOfStake THEN block.pos ELSE ~block.pos

RECURSIVE ContextWalk(_, _, _, _, _, _)
ContextWalk(c, h, nIdx, mapRet, nContextScope, fProofOfStake) ==
    IF ContextLoopGuard(h, nIdx, nContextScope)
    THEN IF ContextMatches(GetAncestor(c, h), fProofOfStake)
         THEN ContextWalk(c, h - 1, nIdx + 1, MapInsert(mapRet, nIdx + 1, h),
                          nContextScope, fProofOfStake)
         ELSE ContextWalk(c, h - 1, nIdx, mapRet, nContextScope, fProofOfStake)
    ELSE mapRet

\* GetContextLWMA(pindex, nContextScope, fProofOfStake): index -> height
GetContextLWMA(c, h, nContextScope, fProofOfStake) ==
    ContextWalk(c, h, 0, <<>>, nContextScope, fProofOfStake)

\* ------------------------------------------------------------ LWMA retarget
Min(a, b) == IF a < b THEN a ELSE b

\* what a retarget call gives back: the compact target it returns, or the
\* exception it leaves with; path, sumWeightedSolvetimes, avgTarget and
\* nextTarget are the locals of the call at its return
Returned(path, nBits, sum, avg, next) ==
    [err |-> "none", bits |-> nBits, path |-> path, sum |-> sum, avg |-> avg, next |-> next]
Thrown(what, path) ==
    [err |-> what, bits |-> 0, path |-> path, sum |-> 0, avg |-> 0, next |-> 0]

\* fProofOfStake ? params.posLimit : params.powLimit
ProofLimit(params, fProofOfStake) ==
    IF fProofOfStake THEN params.posLimit ELSE params.powLimit

\* if (params.fPowNoRetargeting || params.fPoSNoRetargeting)
NoRetargeting(params, fProofOfStake) ==
    params.fPowNoRetargeting \/ params.fPoSNoRetargeting

\* faulty variant of InBootstrap: the bootstrap period ends one block early
InBootstrapShort(height, N) == height < N

\* if (height < N + 1)
InBootstrap(height, N) == height < N + 1

\* faulty variant of ThisTimestamp: the + 1 is left out
ThisTimestampSame(nTime, previousTimestamp) ==
    IF nTime > previousTimestamp THEN nTime ELSE previousTimestamp

\* thisTimestamp of the loop
ThisTimestamp(nTime, previousTimestamp) ==
    IF nTime > previousTimestamp THEN nTime ELSE previousTimestamp + 1

\* faulty variant of SolveTime: the cap is T instead of 6 * T
SolveTimeCapT(T, thisTimestamp, previousTimestamp) ==
    Min(T, thisTimestamp - previousTimestamp)

\* std::min(6 * T, thisTimestamp - previousTimestamp)
SolveTime(T, thisTimestamp, previousTimestamp) ==
    Min(6 * T, thisTimestamp - previousTimestamp)

\* faulty variant of WeightedTerm: the weight falls with recency (N = 5 or less)
WeightedTermReversed(solvetime, j) == solvetime * (6 - j)

\* sumWeightedSolvetimes += solvetime * j
WeightedTerm(solvetime, j) == solvetime * j

\* faulty variant of TargetTerm: the divisions by N and k are left out
TargetTermUndivided(target, N, k) == target

\* target / N / k
TargetTerm(target, N, k) == (target \div N) \div k

\* faulty variant of ClampNextTarget: the clamp is left out
ClampNextTargetNone(nextTarget, limit) == nextTarget

\* if (nextTarget > ProofLimit) { nextTarget = ProofLimit; }
ClampNextTarget(nextTarget, limit) == IF nextTarget > limit THEN limit ELSE nextTarget

\* if (bnNew <= 0 || bnNew > ProofLimit) bnNew = ProofLimit;
ClampNew(bnNew, limit) == IF bnNew <= 0 \/ bnNew > limit THEN limit ELSE bnNew

\* the for loop over i = N .. 1; mapContext.at(i) throws when i is missing;
\* steps lists, for each round, the block time, previousTimestamp before the
\* round, thisTimestamp and solvetime
RECURSIVE LwmaLoop(_, _, _, _, _, _, _, _, _, _)
LwmaLoop(c, mapContext, N, T, k, i, previousTimestamp, j, sum, avg) ==
    IF i <= 0 THEN [err |-> "none", sum |-> sum, avg |-> avg, steps |-> <<>>]
    ELSE IF i \notin DOMAIN mapContext
    THEN [err |-> "out_of_range", sum |-> sum, avg |-> avg, steps |-> <<>>]
    ELSE LET block         == GetAncestor(c, mapContext[i])
             thisTimestamp == ThisTimestamp(block.nTime, previousTimestamp)
             solvetime     == SolveTime(T, thisTimestamp, previousTimestamp)
             target        == SetCompact(block.nBits).value
             rest          == LwmaLoop(c, mapContext, N, T, k, i - 1,
                                  thisTimestamp, j + 1,
                                  sum + WeightedTerm(solvetime, j + 1),
                                  AddMod(avg, TargetTerm(target, N, k)))
         IN  [rest EXCEPT !.steps =
                 <<[nTime |-> block.nTime, previous |-> previousTimestamp,
                    this |-> thisTimestamp, solvetime |-> solvetime,
                    target |-> target, avg |-> avg]>> \o @]

\* lines 200-239: the LWMA computation over the sampled window
LwmaPath(c, h, mapContext, N, T, k, limit) ==
    IF (N + 1) \notin DOMAIN mapContext THEN Thrown("out_of_range", "lwma")
    ELSE LET first == GetAncestor(c, mapContext[N + 1])
             loop  == LwmaLoop(c, mapContext, N, T, k, N, first.nTime, 0, 0, 0)
             next  == MulMod(loop.avg, loop.sum)
         IN  IF loop.err # "none" THEN Thrown(loop.err, "lwma")
             ELSE Returned("lwma", GetCompact(ClampNextTarget(next, limit)),
                           loop.sum, loop.avg, next)

\* lines 166-197: the ppcoin EMA used for the first proof-of-stake blocks
EmaPath(c, h, T, params, limit) ==
    LET pindexPrev == GetLastBlockIndex(c, h, TRUE)
    IN  IF pindexPrev = 0 THEN Returned("first", GetCompact(limit), 0, 0, 0)
        ELSE LET pindexPrevPrev == GetLastBlockIndex(c, pindexPrev - 1, TRUE)
             IN  IF pindexPrevPrev = 0 THEN Returned("second", GetCompact(limit), 0, 0, 0)
                 ELSE LET spacing0  == GetAncestor(c, pindexPrev).nTime
                                         - GetAncestor(c, pindexPrevPrev).nTime
                          spacing1  == IF spacing0 < 0 THEN 1 ELSE spacing0
                          spacing   == IF spacing1 > T * 10 THEN T * 10 ELSE spacing1
                          nInterval == params.nPowTargetSpacing \div T
                          bn0       == SetCompact(GetAncestor(c, h).nBits).value
                          bn1       == MulMod(bn0, (nInterval - 1) * T + spacing + spacing)
                          bnNew     == bn1 \div ((nInterval + 1) * T)
                      IN  Returned("ema", GetCompact(ClampNew(bnNew, limit)), 0, 0, bnNew)

\* Lwma3CalculateNextWorkRequired(pindexLast, params, fProofOfStake), pindexLast
\* being the block of height h
Lwma3CalculateNextWorkRequired(c, h, params, fProofOfStake) ==
    IF NoRetargeting(params, fProofOfStake)
    THEN Returned("noretarget",
                  GetAncestor(c, GetLastBlockIndex(c, h, fProofOfStake)).nBits, 0, 0, 0)
    ELSE LET T     == params.nPowTargetSpacing
             N     == params.lwmaAveragingWindow
             k     == (N * (N + 1) * T) \div 2
             limit == ProofLimit(params, fProofOfStake)
         IN  IF InBootstrap(h, N) THEN Returned("bootstrap", GetCompact(limit), 0, 0, 0)
             ELSE LET mapContext == GetContextLWMA(c, h, N + 1, fProofOfStake)
                  IN  IF /\ fProofOfStake
                         /\ MapSize(mapContext) < N + 1
                         /\ CountPoS(c, h, 0) <= N + 1
                      THEN EmaPath(c, h, T, params, limit)
                      ELSE LwmaPath(c, h, mapContext, N, T, k, limit)

\* ------------------------------------------------------------ legacy EMA retarget
\* C++ integer division truncates toward zero
TruncDiv(a, b) == IF a >= 0 THEN a \div b ELSE -((-a) \div b)

\* mul_exp: the loop "while (a > 0)" from its n-th round on
RECURSIVE MulExpLoop(_, _, _, _, _, _)
MulExpLoop(a, result, n, abs_p, q, isNegative) ==
    IF a > 0
    THEN LET n1 == n + 1
             a1 == (MulMod(a, abs_p) \div q) \div n1
         IN  MulExpLoop(a1,
                        IF isNegative /\ n1 % 2 = 1 THEN SubMod(result, a1)
                        ELSE AddMod(result, a1),
                        n1, abs_p, q, isNegative)
    ELSE result

\* faulty variant of mul_exp: the sign of p is dropped
mul_expUnsigned(a, p, q) ==
    MulExpLoop(a, a, 0, IF p >= 0 THEN p ELSE -p, q, FALSE)

\* mul_exp(a, p, q): a * exp(p/q)
mul_exp(a, p, q) == MulExpLoop(a, a, 0, IF p >= 0 THEN p ELSE -p, q, p < 0)

\* GetLimit(nHeight, params, fProofOfStake)
GetLimit(nHeight, params, fProofOfStake) ==
    IF fProofOfStake
    THEN IF nHeight < params.QIP9Height THEN params.posLimit
         ELSE IF nHeight < params.nReduceBlocktimeHeight THEN params.QIP9PosLimit
         ELSE params.RBTPosLimit
    ELSE params.powLimit

\* the no-retargeting test of CalculateNextWorkRequired
CalcNoRetargeting(params, fProofOfStake) ==
    IF fProofOfStake THEN params.fPoSNoRetargeting ELSE params.fPowNoRetargeting

\* faulty variant of LimitSpacing: a negative spacing becomes 0
LimitSpacingZero(nActualSpacing, nTargetSpacing, factor) ==
    LET s1 == IF nActualSpacing < 0 THEN 0 ELSE nActualSpacing
    IN  IF s1 > nTargetSpacing * factor THEN nTargetSpacing * factor ELSE s1

\* the spacing the blend uses: lines 330-333 before QIP9Height, 337-340 from it on
LimitSpacing(nActualSpacing, nTargetSpacing, factor) ==
    LET s1 == IF nActualSpacing < 0 THEN nTargetSpacing ELSE nActualSpacing
    IN  IF s1 > nTargetSpacing * factor THEN nTargetSpacing * factor ELSE s1

\* CalculateNextWorkRequired(pindexLast, nFirstBlockTime, params, fProofOfStake),
\* pindexLast being the block of height h
\* (the record returned carries the spacing used in the blend as sum and bnNew
\* before the clamp as next)
CalculateNextWorkRequired(c, h, nFirstBlockTime, params, fProofOfStake) ==
    IF CalcNoRetargeting(params, fProofOfStake)
    THEN Returned("noretarget", GetAncestor(c, h).nBits, 0, 0, 0)
    ELSE LET nHeight        == h + 1
             nTargetSpacing == TargetSpacing(params, nHeight)
             measured       == GetAncestor(c, h).nTime - nFirstBlockTime
             bnTargetLimit  == GetLimit(nHeight, params, fProofOfStake)
             bn0            == SetCompact(GetAncestor(c, h).nBits).value
             nInterval      == DifficultyAdjustmentInterval(params, nHeight)
             mask           == StakeTimestampMask(params, nHeight)
             pre            == LimitSpacing(measured, nTargetSpacing, 10)
             post           == LimitSpacing(measured, nTargetSpacing, 20)
             bnNew          ==
                 IF nHeight < params.QIP9Height
                 THEN MulMod(bn0, (nInterval - 1) * nTargetSpacing + pre + pre)
                          \div ((nInterval + 1) * nTargetSpacing)
                 ELSE mul_exp(bn0,
                              TruncDiv(2 * (post - nTargetSpacing), mask + 1),
                              TruncDiv((nInterval + 1) * nTargetSpacing, mask + 1))
         IN  Returned(IF nHeight < params.QIP9Height THEN "pre" ELSE "post",
                      GetCompact(ClampNew(bnNew, bnTargetLimit)),
                      IF nHeight < params.QIP9Height THEN pre ELSE post, 0, bnNew)

\* ------------------------------------------------------------ proof verification
\* faulty variant of CheckProofOfWork: a hash equal to the target is rejected
CheckProofOfWorkStrict(hash, nBits, params, fProofOfStake) ==
    LET d == SetCompact(nBits)
    IN  IF d.fNegative \/ d.value = 0 \/ d.fOverflow \/ d.value > params.powLimit
        THEN FALSE
        ELSE IF hash >= d.value THEN FALSE
        ELSE TRUE

\* CheckProofOfWork(hash, nBits, params, fProofOfStake); hash is UintToArith256(hash)
CheckProofOfWork(hash, nBits, params, fProofOfStake) ==
    LET d == SetCompact(nBits)
    IN  IF d.fNegative \/ d.value = 0 \/ d.fOverflow \/ d.value > params.powLimit
        THEN FALSE
        ELSE IF hash > d.value THEN FALSE
        ELSE TRUE

\* ------------------------------------------------------------ seed selector
\* owner of a mutex nobody holds
NoThread == 0

\* uint32_t arithmetic at a reduced width: UintBits bits (32 in the program)
UintMod == Pow2(UintBits)
U(x) == x % UintMod
\* the conversion of a uint32_t argument to the int parameter of
\* CChain::operator[]: values from half the range on are negative
ToInt(u) == IF u >= UintMod \div 2 THEN u - UintMod ELSE u

\* a uint256 as two halves; uint256() is all zero
ZeroHash == <<0, 0>>
\* hash of the block at a height on a branch (0 is the original chain)
BlockHash(height, branch) == <<height + 1, branch + 1>>
\* what a load through a null block pointer may yield when it does not trap
GarbageHash == <<-1, -1>>
NullBlock == <<>>

\* forks is the list of reorganisations so far, each the height from which the
\* active chain was replaced by a new branch; the branch a height is on is the
\* last reorganisation at or below it
Branch(fk, height) ==
    LET S == {j \in 1..Len(fk) : fk[j] <= height}
    IN  IF S = {} THEN 0 ELSE CHOOSE j \in S : \A i \in S : i <= j

\* ::ChainActive()[nHeight]: null outside 0..tip
ChainActiveAt(fk, nHeight) ==
    IF nHeight < 0 \/ nHeight > SeedTip THEN NullBlock
    ELSE BlockHash(nHeight, Branch(fk, nHeight))

GenesisHash == BlockHash(0, 0)

SeedParams(nSeedHeight, nSeedInterval) ==
    [RX2SeedHeight |-> nSeedHeight, RX2SeedInterval |-> nSeedInterval]

\* lines 11-13 of GetRandomXSeed
SwitchKey(p) == p.RX2SeedHeight % p.RX2SeedInterval

\* lines 20-35: whether the call looks a block up and at which index of the
\* active chain
SeedIndex(nHeight, p) ==
    LET remainer     == nHeight % p.RX2SeedInterval
        first_check  == U(nHeight - remainer)
        second_check == U(nHeight - p.RX2SeedInterval - remainer)
    IN  IF nHeight > U(nHeight - remainer + SwitchKey(p))
        THEN [read |-> nHeight > first_check,
              idx  |-> ToInt(U(first_check - p.RX2SeedHeight))]
        ELSE [read |-> nHeight > second_check,
              idx  |-> ToInt(U(second_check - p.RX2SeedHeight))]

\* lines 16-19: the static after the first-use test
SeedFirstUse(key) == IF key = ZeroHash THEN GenesisHash ELSE key

SeedOutcome(err, key, seed, sel) ==
    [err |-> err, key |-> key, seed |-> seed, read |-> sel.read, idx |-> sel.idx]

\* faulty variant of GetRandomXSeed: a key selected by an earlier call is
\* kept without looking at the chain
GetRandomXSeedCached(key, nHeight, p, fk) ==
    LET key1  == SeedFirstUse(key)
        sel   == SeedIndex(nHeight, p)
        block == ChainActiveAt(fk, sel.idx)
    IN  IF ~sel.read \/ key1 # GenesisHash
        THEN {SeedOutcome("none", key1, key1, [sel EXCEPT !.read = FALSE])}
        ELSE IF block = NullBlock
             THEN {SeedOutcome("null_deref", key1, ZeroHash, sel),
                   SeedOutcome("none", GarbageHash, GarbageHash, sel)}
             ELSE {SeedOutcome("none", block, block, sel)}

\* GetRandomXSeed(nHeight) run to completion with the static holding key: the
\* outcomes the build can produce.  GetBlockHash() through the null pointer
\* that operator[] returns outside the chain is undefined: it traps, or it
\* yields whatever the load finds.
GetRandomXSeed(key, nHeight, p, fk) ==
    LET key1  == SeedFirstUse(key)
        sel   == SeedIndex(nHeight, p)
        block == ChainActiveAt(fk, sel.idx)
    IN  IF ~sel.read THEN {SeedOutcome("none", key1, key1, sel)}
        ELSE IF block = NullBlock
             THEN {SeedOutcome("null_deref", key1, ZeroHash, sel),
                   SeedOutcome("none", GarbageHash, GarbageHash, sel)}
             ELSE {SeedOutcome("none", block, block, sel)}

\* ------------------------------------------------------------ hash engine
Engines == {"rx_slow_hash", "rx_slow_hash2"}
\* values of a byte of hashed data
Bytes == {0, 1}
HashThreads == {1, 2}

\* randomx_seed2.GetHex().size() (lines 29, 74): the hexadecimal digits of a
\* uint256, two for each of its 32 bytes
GetHexSize == 64
\* the key size given to randomx_init_cache at a rotation and by
\* rx_slow_hash2_old (lines 44, 90, 120)
KeySize == 64

\* a null randomx_cache* or randomx_vm*
NullHandle == [live |-> FALSE, seed |-> 0, size |-> 0]
\* randomx_alloc_cache + randomx_init_cache(cache, key, size): a dataset cache
\* initialised with size characters of the key; randomx_create_vm(flags,
\* cache, nullptr): a machine bound to that cache
Handle(seed, size) == [live |-> TRUE, seed |-> seed, size |-> size]

\* randomx_calculate_hash(vm, data, length, hash): a function of the key the
\* machine's cache was initialised with and of the length bytes of data
RxHash(vm, data) == <<vm.seed, vm.size, data>>
\* the bytes left in hash by randomx_calculate_hash given no machine
GarbageOut == <<-1>>

\* static char old_data[288], old_hash[64]: zero-initialised
ZeroData == [i \in 1..MemoLen |-> 0]
ZeroOut == <<>>

\* the statics of one function before its first call (zero-initialised);
\* caches and vms count the handles the function obtained from the library
\* and has not given back, misuse holds the primitives it handed a missing or
\* released handle
Statics ==
    [is_init |-> FALSE, randomx_seed2 |-> 0, cache |-> NullHandle,
     rx_vm |-> NullHandle, old_data |-> ZeroData, old_hash |-> ZeroOut,
     caches |-> 0, vms |-> 0, misuse |-> {}]

\* cache = randomx_alloc_cache(flags); randomx_init_cache(cache, key, size)
\* (lines 27-29, 43-44, 72-74, 89-90): ok is whether the library returned a
\* cache; the result is handed to randomx_init_cache unchecked
AllocCache(st, size, ok) ==
    IF ok
    THEN [st EXCEPT !.cache = Handle(st.randomx_seed2, size), !.caches = @ + 1]
    ELSE [st EXCEPT !.cache = NullHandle,
                    !.misuse = @ \cup {"randomx_init_cache"}]

\* rx_vm = randomx_create_vm(flags, cache, nullptr) (lines 33, 45, 79, 91):
\* ok is whether the library returned a machine; cache is handed over
\* unchecked
CreateVm(st, ok) ==
    LET s == IF st.cache.live THEN st
             ELSE [st EXCEPT !.misuse = @ \cup {"randomx_create_vm"}]
    IN  IF ok /\ st.cache.live
        THEN [s EXCEPT !.rx_vm = Handle(st.cache.seed, st.cache.size),
                       !.vms = @ + 1]
        ELSE [s EXCEPT !.rx_vm = NullHandle]

\* faulty variant of DestroyVm: the machine is not given back
DestroyVmNever(st) == st

\* randomx_destroy_vm(rx_vm) (lines 40, 86)
DestroyVm(st) ==
    IF st.rx_vm.live
    THEN [st EXCEPT !.rx_vm.live = FALSE, !.vms = @ - 1]
    ELSE [st EXCEPT !.misuse = @ \cup {"randomx_destroy_vm"}]

\* randomx_release_cache(cache) (lines 41, 87)
ReleaseCache(st) ==
    IF st.cache.live
    THEN [st EXCEPT !.cache.live = FALSE, !.caches = @ - 1]
    ELSE [st EXCEPT !.misuse = @ \cup {"randomx_release_cache"}]

\* lines 22-36 of rx_slow_hash and 68-82 of rx_slow_hash2: the first use
\* (rx_slow_hash sets is_init at the end of the block, line 35; rx_slow_hash2
\* where it allocates the cache, line 75); okCache and okVm are whether the
\* library returns a cache and a machine
InitContextWith(e, st, seedhash, okCache, okVm) ==
    IF st.is_init THEN st
    ELSE LET s1 == [st EXCEPT !.randomx_seed2 = seedhash]
             s2 == IF s1.cache.live THEN s1
                   ELSE [AllocCache(s1, GetHexSize, okCache) EXCEPT
                            !.is_init = (e = "rx_slow_hash2")]
             s3 == IF s2.rx_vm.live THEN s2 ELSE CreateVm(s2, okVm)
         IN  [s3 EXCEPT !.is_init = (e = "rx_slow_hash") \/ @]

\* the first use when the library's allocations succeed
InitContext(e, st, seedhash) == InitContextWith(e, st, seedhash, TRUE, TRUE)

\* faulty variant of SeedChanged: the context is never rebuilt
SeedChangedNever(randomx_seed2, seedhash) == FALSE

\* lines 37 and 83: randomx_seed2 != seedhash
SeedChanged(randomx_seed2, seedhash) == randomx_seed2 # seedhash

\* lines 37-47 and 83-94: the context is destroyed and built again for the
\* new seed
RotateContextWith(st, seedhash, okCache, okVm) ==
    IF SeedChanged(st.randomx_seed2, seedhash)
    THEN LET s1 == [st EXCEPT !.randomx_seed2 = seedhash]
             s2 == ReleaseCache(DestroyVm(s1))
         IN  CreateVm(AllocCache(s2, KeySize, okCache), okVm)
    ELSE st

\* faulty variant of RotateContext: the seed is recorded, the context kept
RotateContextKeep(st, seedhash) == [st EXCEPT !.randomx_seed2 = seedhash]

\* the rotation when the library's allocations succeed
RotateContext(st, seedhash) == RotateContextWith(st, seedhash, TRUE, TRUE)

\* rx_slow_hash2_old(data, hash, length, seedhash) (lines 108-132): a cache
\* and a machine built for the seed, used for one hash and given back
rx_slow_hash2_old(data, seedhash) ==
    LET s1 == [Statics EXCEPT !.randomx_seed2 = seedhash]
        s2 == CreateVm(AllocCache(s1, KeySize, TRUE), TRUE)
    IN  RxHash(s2.rx_vm, data)

\* the MemoLen bytes memcmp and memcpy read at data (lines 96, 101): the
\* bytes of the input and, when it is shorter, whatever follows it in memory
MemoViews(data) ==
    IF Len(data) >= MemoLen THEN {SubSeq(data, 1, MemoLen)}
    ELSE {data \o pad : pad \in [1..(MemoLen - Len(data)) -> Bytes]}

\* faulty variant of CanEnter: the section is entered whoever holds the mutex
CanEnterAlways(owner, t) == TRUE

\* ENTER_CRITICAL_SECTION(cs_randomx) on a recursive mutex: it is free or held
\* by the caller
CanEnter(owner, t) == owner = NoThread \/ owner = t

\* ------------------------------------------------------------ inputs
DefaultParams == ConsensusParams(FALSE, FALSE)

\* timestamp steps of connected blocks: backwards, below the spacing, beyond
\* every cap (6*T, 10*T, 20*T)
TimeSteps == {-5, 3, 90}

\* bits of connected blocks: a target so small that target / N / k is 0, and
\* the proof-of-work limit
TinyBits == GetCompact(3)
LimitBits == GetCompact(DefaultParams.powLimit)
BlockBits == {TinyBits, LimitBits}

\* seed parameters: the seeding start on a window boundary (SwitchKey 0) and
\* half a window past one (SwitchKey 50)
SeedConfigs == {SeedParams(1000, 100), SeedParams(1050, 100)}
DefaultSeedParams == SeedParams(1000, 100)

\* heights GetRandomXSeed is called with: two below the seeding start, and the
\* start, the middle and past the middle of windows that follow it
SeedHeights == {0, 50, 1050, 1100, 1150, 1160, 1250}

\* heights from which a reorganisation replaces the active chain
ReorgHeights == {100, 200}

\* inputs of the hash functions: all zero like the memo before its first
\* use, two that agree on the bytes the memo compares, one shorter than those
HashData == {<<0, 0>>, <<0, 1>>, <<0, 1, 0>>, <<0, 1, 1>>, <<1>>}
\* seed hashes
HashSeeds == {1, 2}

\* threads calling GetRandomXSeed concurrently
SeedThreads == {1, 2}
\* locals of a call: its argument, what lines 20-35 selected, the block hash
\* being assigned, the copy being returned, and the number of reorganisations
\* the chain had when the call began
NoSeedLocals ==
    [nHeight |-> 0, read |-> FALSE, idx |-> 0, block |-> ZeroHash,
     lo |-> 0, hi |-> 0, since |-> 0]

\* heights of concurrent calls: one served from the static, two of different
\* windows
SeedHeightsMT == {0, 1150, 1250}

\* ------------------------------------------------------------ state machine
\* ret is the call in progress and what it returns: calls are synchronous, the
\* caller takes the result (Return) before the next call or block
Call(op, fPoS, powNoRet, posNoRet, arg, arg2, out) ==
    [op |-> op, fPoS |-> fPoS, powNoRet |-> powNoRet, posNoRet |-> posNoRet,
     arg |-> arg, arg2 |-> arg2, out |-> out]

Idle == Call("none", FALSE, FALSE, FALSE, 0, 0, 0)

\* no call of GetRandomXSeed has returned yet
NoSeedCall ==
    [h |-> -1, idx |-> -1, seed |-> ZeroHash, read |-> FALSE, replaced |-> FALSE]

\* the seed selector before its first call: the static is zero-initialised,
\* nobody holds cs_main, both calling threads are outside the function
SeedSelectorInit ==
    /\ forks = <<>>
    /\ current_key_block = ZeroHash
    /\ seedSeen = <<>>
    /\ seedPrev = NoSeedCall
    /\ seedPc = [t \in SeedThreads |-> "idle"]
    /\ seedLoc = [t \in SeedThreads |-> NoSeedLocals]
    /\ cs_main = NoThread

\* no call of a hash function is in progress
NoHashLocals ==
    [engine |-> "none", data |-> <<>>, seedhash |-> 0, hash |-> ZeroOut,
     first |-> FALSE, prevSeed |-> 0, prevData |-> <<>>, prevHash |-> ZeroOut,
     rebuilt |-> FALSE, computed |-> FALSE, allocFailed |-> FALSE]

\* no call of a hash function has been made yet
NoHashCall == [seed |-> 0, data |-> <<>>, hash |-> ZeroOut]

\* the hash engine before its first call
HashEngineInit ==
    /\ rx = [e \in Engines |-> Statics]
    /\ hashPrev = [e \in Engines |-> NoHashCall]
    /\ hashPc = [t \in HashThreads |-> "idle"]
    /\ hashLoc = [t \in HashThreads |-> NoHashLocals]
    /\ cs_randomx = NoThread

Init ==
    /\ chain = <<Genesis(LimitBits)>>
    /\ ret = Idle
    /\ seedParams = DefaultSeedParams
    /\ SeedSelectorInit
    /\ HashEngineInit

\* a block is accepted on top of the tip
ConnectBlock ==
    /\ ret.op = "none"
    /\ TipHeight(chain) < MaxHeight
    /\ \E pos \in BOOLEAN, dt \in TimeSteps, nBits \in BlockBits :
          chain' = Append(chain, Block(pos, chain[Len(chain)].nTime + dt, nBits))
    /\ ret' = Idle
    /\ UNCHANGED rxVars

\* Lwma3CalculateNextWorkRequired(tip, params, fProofOfStake)
CallLwma3 ==
    /\ ret.op = "none"
    /\ \E fPoS \in BOOLEAN, powNoRet \in BOOLEAN, posNoRet \in BOOLEAN :
          ret' = Call("Lwma3", fPoS, powNoRet, posNoRet, 0, 0,
                      Lwma3CalculateNextWorkRequired(chain, TipHeight(chain),
                          ConsensusParams(powNoRet, posNoRet), fPoS))
    /\ UNCHANGED <<chain, rxVars>>

\* GetContextLWMA(tip, nContextScope, fProofOfStake)
CallGetContextLWMA ==
    /\ ret.op = "none"
    /\ \E fPoS \in BOOLEAN, nContextScope \in 1..MaxScope :
          ret' = Call("GetContextLWMA", fPoS, FALSE, FALSE, nContextScope, 0,
                      GetContextLWMA(chain, TipHeight(chain), nContextScope, fPoS))
    /\ UNCHANGED <<chain, rxVars>>

\* CalculateNextWorkRequired(tip, nFirstBlockTime, params, fProofOfStake) with
\* the time of an ancestor as nFirstBlockTime
CallCalculateNextWorkRequired ==
    /\ ret.op = "none"
    /\ \E fPoS \in BOOLEAN, powNoRet \in BOOLEAN, posNoRet \in BOOLEAN,
          first \in 0..TipHeight(chain) :
          ret' = Call("CalculateNextWorkRequired", fPoS, powNoRet, posNoRet,
                      GetAncestor(chain, first).nTime, 0,
                      CalculateNextWorkRequired(chain, TipHeight(chain),
                          GetAncestor(chain, first).nTime,
                          ConsensusParams(powNoRet, posNoRet), fPoS))
    /\ UNCHANGED <<chain, rxVars>>

\* the caller takes the result
Return ==
    /\ ret.op # "none"
    /\ ret' = Idle
    /\ UNCHANGED <<chain, rxVars>>

Next ==
    \/ ConnectBlock
    \/ Return
    \/ CallLwma3
    \/ CallGetContextLWMA
    \/ CallCalculateNextWorkRequired

Spec == Init /\ [][Next]_vars

\* ------------------------------------------------------------ pure calls
\* compact values handed to CheckProofOfWork: zero, zero with the sign bit,
\* negative, overflowing in each of the three ways, the largest size that does
\* not overflow, just above the limit, the limit, and small valid targets
CheckBits ==
    { 0, MakeCompact(3, SignBit),
      MakeCompact(2, SignBit + Base), MakeCompact(4, SignBit + 1),
      MakeCompact(WidthDigits + 3, 1), MakeCompact(WidthDigits + 2, Base),
      MakeCompact(WidthDigits + 1, Base * Base), MakeCompact(WidthDigits + 2, 1),
      GetCompact(PowLimit + 1), LimitBits, TinyBits,
      MakeCompact(3, 5), MakeCompact(2, Base * 7), GetCompact(1000) }

\* hashes around the decoded target, and the two ends of the range
CheckHashes(nBits) ==
    LET t == Decode(nBits)
    IN  {0, t - 1, t, t + 1, PowLimit, Modulus - 1} \cap (0..(Modulus - 1))

CallCheckProofOfWork ==
    /\ ret.op = "none"
    /\ \E nBits \in CheckBits, fPoS \in BOOLEAN :
          \E hash \in CheckHashes(nBits) :
             ret' = Call("CheckProofOfWork", fPoS, FALSE, FALSE, hash, nBits,
                         CheckProofOfWork(hash, nBits, DefaultParams, fPoS))
    /\ UNCHANGED <<chain, rxVars>>

\* a synthetic window: the genesis block, a reference block, and one block of
\* the given kind and bits per solve time (oldest first)
RECURSIVE SumFirst(_, _)
SumFirst(st, n) == IF n <= 0 THEN 0 ELSE st[n] + SumFirst(st, n - 1)

WindowChain(fPoS, nBits, st) ==
    <<Genesis(LimitBits)>> \o [i \in 1..(Len(st) + 1) |-> Block(fPoS, SumFirst(st, i - 1), nBits)]

\* the retarget of a synthetic window
WindowLwma3(fPoS, nBits, st, params) ==
    Lwma3CalculateNextWorkRequired(WindowChain(fPoS, nBits, st), Len(st) + 1, params, fPoS)

\* the end-to-end example: N = 5, T = 150
ExampleParams ==
    [DefaultParams EXCEPT !.lwmaAveragingWindow = 5, !.nPowTargetSpacing = 150]
ExampleTimes == <<100, 100, 100, 100, 500>>
ControlTimes == <<150, 150, 150, 150, 150>>
ExampleBits(fPoS) == {GetCompact(12000), GetCompact(16000), GetCompact(ProofLimit(DefaultParams, fPoS))}

CallExample ==
    /\ ret.op = "none"
    /\ \E fPoS \in BOOLEAN :
          \E nBits \in ExampleBits(fPoS) :
             ret' = Call("Example", fPoS, FALSE, FALSE, 0, nBits,
                         [example |-> WindowLwma3(fPoS, nBits, ExampleTimes, ExampleParams),
                          control |-> WindowLwma3(fPoS, nBits, ControlTimes, ExampleParams)])
    /\ UNCHANGED <<chain, rxVars>>

\* two windows of N blocks with the same solve times, the longer ones in the
\* older half of one and in the newer half of the other
HalvesWindows == {2, 4}
HalvesTimes == {-3, 1, 2, 5, 24, 30}
HalvesBits(fPoS) == {GetCompact(200), GetCompact(1000), GetCompact(ProofLimit(DefaultParams, fPoS))}
HalvesParams(N) == [DefaultParams EXCEPT !.lwmaAveragingWindow = N]
OlderLong(N, short, long) == [i \in 1..N |-> IF 2 * i <= N THEN long ELSE short]
NewerLong(N, short, long) == [i \in 1..N |-> IF 2 * i <= N THEN short ELSE long]

CallHalves ==
    /\ ret.op = "none"
    /\ \E fPoS \in BOOLEAN, N \in HalvesWindows, short \in HalvesTimes, long \in HalvesTimes :
          /\ short < long
          /\ \E nBits \in HalvesBits(fPoS) :
                ret' = Call("Halves", fPoS, FALSE, FALSE,
                            [N |-> N, short |-> short, long |-> long], nBits,
                            [olderLong |-> WindowLwma3(fPoS, nBits, OlderLong(N, short, long),
                                                       HalvesParams(N)),
                             newerLong |-> WindowLwma3(fPoS, nBits, NewerLong(N, short, long),
                                                       HalvesParams(N))])
    /\ UNCHANGED <<chain, rxVars>>

\* windows retargeted under a proof limit with leading zero digits and under
\* one without (7fff...), every block at the limit or at a small target
WindowLimits == {PowLimit, Pow2(WIDTH - 1) - 1}
WindowTimes == {-5, 1, 90}
WindowBits(limit) == {GetCompact(limit), GetCompact(1000)}
WindowParams(limit) == [DefaultParams EXCEPT !.powLimit = limit, !.posLimit = limit]

CallWindow ==
    /\ ret.op = "none"
    /\ \E fPoS \in BOOLEAN, limit \in WindowLimits,
          st \in [1..DefaultParams.lwmaAveragingWindow -> WindowTimes] :
          \E nBits \in WindowBits(limit) :
             ret' = Call("Window", fPoS, FALSE, FALSE,
                         [limit |-> limit, st |-> st], nBits,
                         WindowLwma3(fPoS, nBits, st, WindowParams(limit)))
    /\ UNCHANGED <<chain, rxVars>>

\* retargets of a tip at each height up to MaxHeight, its target well below
\* the limits, the first block time a measured spacing before the tip's
RetargetSpacings == {-5, 0, 1, 2, 3, 4, 5, 9, 50, 90}
RetargetBits == {GetCompact(40), GetCompact(200), GetCompact(1000)}
RetargetChain(fPoS, nBits, h) == WindowChain(fPoS, nBits, [i \in 1..(h - 1) |-> 1])

CallRetarget ==
    /\ ret.op = "none"
    /\ \E fPoS \in BOOLEAN, h \in 1..MaxHeight, nBits \in RetargetBits,
          spacing \in RetargetSpacings :
          LET c == RetargetChain(fPoS, nBits, h)
          IN  ret' = Call("Retarget", fPoS, FALSE, FALSE,
                          [h |-> h, spacing |-> spacing], nBits,
                          CalculateNextWorkRequired(c, h,
                              GetAncestor(c, h).nTime - spacing,
                              DefaultParams, fPoS))
    /\ UNCHANGED <<chain, rxVars>>

\* chains of every mix of proof kinds above the genesis block, up to
\* MaxKinds blocks, five seconds apart
MaxKinds == 5
KindsChain(kinds) ==
    <<Genesis(LimitBits)>>
        \o [i \in 1..Len(kinds) |-> Block(kinds[i], 5 * i, GetCompact(200))]

CallKinds ==
    /\ ret.op = "none"
    /\ \E fPoS \in BOOLEAN, len \in 1..MaxKinds :
          \E kinds \in [1..len -> BOOLEAN] :
             ret' = Call("Kinds", fPoS, FALSE, FALSE, kinds, 0,
                         Lwma3CalculateNextWorkRequired(KindsChain(kinds), len,
                             DefaultParams, fPoS))
    /\ UNCHANGED <<chain, rxVars>>

NextPure ==
    \/ CallCheckProofOfWork
    \/ CallExample
    \/ CallHalves
    \/ CallWindow
    \/ CallRetarget
    \/ CallKinds
    \/ Return

SpecPure == Init /\ [][NextPure]_vars

\* ------------------------------------------------------------ claims
\* the call in ret is a retarget by Lwma3CalculateNextWorkRequired with both
\* no-retargeting flags clear
LwmaRetarget == ret.op = "Lwma3" /\ ~ret.powNoRet /\ ~ret.posNoRet
WindowN == DefaultParams.lwmaAveragingWindow
KindLimit(fPoS) == IF fPoS THEN PosLimit ELSE PowLimit

\* C1: CheckProofOfWork returns true exactly when the target decoded from
\* nBits is not negative, not zero, did not overflow, is not above powLimit and
\* the hash is at most the target; for a valid target T the hashes T and T-1
\* are accepted and T+1 is rejected.
C1_CheckProofOfWorkIff ==
    ret.op = "CheckProofOfWork" =>
        LET d     == SetCompact(ret.arg2)
            valid == ~d.fNegative /\ d.value # 0 /\ ~d.fOverflow /\ d.value <= PowLimit
        IN  /\ ret.out \in BOOLEAN
            /\ ret.out <=> (valid /\ ret.arg <= d.value)
            /\ (valid /\ ret.arg \in {d.value, d.value - 1}) => ret.out
            /\ (valid /\ ret.arg = d.value + 1) => ~ret.out

\* a hash equal to a valid target has been accepted
C1_Witness ==
    /\ ret.op = "CheckProofOfWork"
    /\ ret.arg = Decode(ret.arg2)
    /\ ret.arg2 = LimitBits
    /\ ret.out = TRUE

\* C2: with retargeting enabled and a tip height below N+1,
\* Lwma3CalculateNextWorkRequired returns exactly the compact encoding of the
\* proof limit of the requested kind, whatever the blocks hold.
C2_BootstrapLimit ==
    (LwmaRetarget /\ TipHeight(chain) < WindowN + 1) =>
        /\ ret.out.err = "none"
        /\ ret.out.bits = GetCompact(KindLimit(ret.fPoS))

\* a proof-of-stake retarget at height N over blocks that do not carry the limit
C2_Witness ==
    /\ LwmaRetarget /\ ret.fPoS
    /\ TipHeight(chain) = WindowN
    /\ \A h \in 1..TipHeight(chain) : chain[h + 1].nBits = TinyBits /\ chain[h + 1].pos
    /\ ret.out.bits = GetCompact(PosLimit)

\* C3: with retargeting enabled, the target returned by
\* Lwma3CalculateNextWorkRequired (LWMA path and EMA fallback) and by
\* CalculateNextWorkRequired never decodes to a value above the applicable
\* proof limit.
C3_NeverAboveLimit ==
    /\ (LwmaRetarget /\ ret.out.err = "none") =>
           Decode(ret.out.bits) <= KindLimit(ret.fPoS)
    /\ (/\ ret.op = "CalculateNextWorkRequired"
        /\ ~(IF ret.fPoS THEN ret.posNoRet ELSE ret.powNoRet)) =>
           Decode(ret.out.bits) <= GetLimit(TipHeight(chain) + 1, DefaultParams, ret.fPoS)

\* the LWMA product was above the limit and the returned target is not
C3_Witness ==
    /\ LwmaRetarget
    /\ ret.out.path = "lwma" /\ ret.out.err = "none"
    /\ ret.out.next > KindLimit(ret.fPoS)
    /\ Decode(ret.out.bits) <= KindLimit(ret.fPoS)

\* C4: whenever the LWMA computation yields nextTarget = 0 the function
\* returns the proof limit, never the compact encoding of a zero target.
C4_ZeroReplacedByLimit ==
    (LwmaRetarget /\ ret.out.path = "lwma" /\ ret.out.err = "none" /\ ret.out.next = 0) =>
        /\ ret.out.bits = GetCompact(KindLimit(ret.fPoS))
        /\ Decode(ret.out.bits) # 0

\* C5: for a tip of height >= N+1, any mix of kinds and either requested kind,
\* Lwma3CalculateNextWorkRequired returns a compact target and never fails.
C5_NeverFails ==
    (ret.op = "Lwma3" /\ TipHeight(chain) >= WindowN + 1) => ret.out.err = "none"

\* C6: the mapping returned by GetContextLWMA(start, limit, kind) holds at
\* most limit entries.
C6_AtMostLimit ==
    ret.op = "GetContextLWMA" => MapSize(ret.out) <= ret.arg

\* the heights, from `from` to the tip, of the blocks of the requested kind
KindHeights(fPoS, from) == {h \in from..TipHeight(chain) : chain[h + 1].pos = fPoS}
\* the i-th largest element of a set of heights
NthRecent(S, i) == CHOOSE x \in S : Cardinality({y \in S : y > x}) = i - 1

\* the mapping m lists, in order and without a gap, the most recent blocks of S,
\* and all of them when S has fewer than limit elements
ListsRecent(m, S, limit) ==
    LET n == MapSize(m)
    IN  /\ DOMAIN m = 1..n
        /\ n <= Cardinality(S)
        /\ \A i \in 1..n : m[i] = NthRecent(S, i)
        /\ \A i \in 1..n : \A j \in 1..n : i < j => m[i] > m[j]
        /\ Cardinality(S) < limit => n = Cardinality(S)

\* C7 (as stated): the mapping of GetContextLWMA has keys exactly 1..m, entry i
\* is the height of the i-th most recent block of the requested kind among the
\* starting block and all its ancestors, the root included when it matches,
\* heights strictly decrease, and with fewer than limit matching blocks every
\* one of them is in the mapping.
C7_ListsAllWithRoot ==
    ret.op = "GetContextLWMA" => ListsRecent(ret.out, KindHeights(ret.fPoS, 0), ret.arg)

\* C7 (amended): the same over the blocks that have a predecessor: the root
\* block is never listed.
C7_ListsAllButRoot ==
    ret.op = "GetContextLWMA" =>
        /\ ListsRecent(ret.out, KindHeights(ret.fPoS, 1), ret.arg)
        /\ 0 \notin {ret.out[i] : i \in DOMAIN ret.out}

\* a proof-of-work walk over a mixed chain: the tip and the root match, a
\* proof-of-stake block lies between, fewer than limit blocks are listed
C7_Witness ==
    /\ ret.op = "GetContextLWMA" /\ ~ret.fPoS
    /\ ~chain[Len(chain)].pos
    /\ \E h \in 1..TipHeight(chain) : chain[h + 1].pos
    /\ MapSize(ret.out) = 2 /\ MapSize(ret.out) < ret.arg
    /\ ret.out[1] = TipHeight(chain)

\* the flag governing the requested kind is set in the call in ret
GoverningFlagSet == IF ret.fPoS THEN ret.posNoRet ELSE ret.powNoRet

\* C8: when the no-retargeting flag governing the requested kind is set,
\* Lwma3CalculateNextWorkRequired returns unchanged the bits of the most recent
\* block of that kind at or before the tip, also when the tip is of the other
\* kind.
C8_NoRetargetingBits ==
    (ret.op = "Lwma3" /\ GoverningFlagSet /\ KindHeights(ret.fPoS, 0) # {}) =>
        /\ ret.out.err = "none"
        /\ ret.out.bits = chain[NthRecent(KindHeights(ret.fPoS, 0), 1) + 1].nBits

\* proof-of-stake bits returned below a proof-of-work tip that carries other bits
C8_Witness ==
    /\ ret.op = "Lwma3" /\ GoverningFlagSet /\ ret.fPoS
    /\ ~chain[Len(chain)].pos
    /\ KindHeights(TRUE, 0) # {}
    /\ ret.out.bits # chain[Len(chain)].nBits
    /\ ret.out.bits = TinyBits

\* C9 (as stated): with N=5, T=150 and solve times [100,100,100,100,500] the
\* returned target is strictly smaller than with five solve times of 150.
C9_ExampleHarder ==
    ret.op = "Example" =>
        Decode(ret.out.example.bits) < Decode(ret.out.control.bits)

\* C9 (amended): the returned target is never smaller than the control's (the
\* weighted sum is 3500 against 2250), and strictly larger when the control's
\* is neither zero nor the proof limit.
C9_ExampleEasier ==
    ret.op = "Example" =>
        LET e == ret.out.example
            c == ret.out.control
        IN  /\ e.err = "none" /\ c.err = "none"
            /\ e.sum = 3500 /\ c.sum = 2250
            /\ Decode(e.bits) >= Decode(c.bits)
            /\ (/\ Decode(c.bits) > 0
                /\ Decode(c.bits) < Decode(GetCompact(KindLimit(ret.fPoS)))) =>
                   Decode(e.bits) > Decode(c.bits)

\* both runs below the limit, the example's target strictly larger
C9_Witness ==
    /\ ret.op = "Example"
    /\ Decode(ret.out.control.bits) > 0
    /\ Decode(ret.out.example.bits) > Decode(ret.out.control.bits)
    /\ ret.out.example.next < KindLimit(ret.fPoS)

\* C10 (as stated): of two windows with the same bits and solve times, the one
\* with the longer solve times in its newer half gets a strictly larger target.
C10_NewerLongStrictlyEasier ==
    ret.op = "Halves" =>
        Decode(ret.out.newerLong.bits) > Decode(ret.out.olderLong.bits)

\* the cap of a solve time
CappedSolveTime(dt) == Min(6 * DefaultParams.nPowTargetSpacing, dt)

\* C10 (amended): for positive solve times, the window with the longer solve
\* times in its newer half has the larger weighted sum (strictly, when the
\* solve times still differ under the 6*T cap) and a target that is never
\* smaller.
C10_NewerLongNotHarder ==
    (ret.op = "Halves" /\ ret.arg.short >= 1) =>
        LET o == ret.out.olderLong
            n == ret.out.newerLong
        IN  /\ o.err = "none" /\ n.err = "none"
            /\ n.sum >= o.sum
            /\ CappedSolveTime(ret.arg.long) > CappedSolveTime(ret.arg.short) => n.sum > o.sum
            /\ Decode(n.bits) >= Decode(o.bits)

\* a pair of windows with positive solve times whose targets differ
C10_Witness ==
    /\ ret.op = "Halves" /\ ret.arg.short >= 1
    /\ ret.out.newerLong.sum > ret.out.olderLong.sum
    /\ Decode(ret.out.newerLong.bits) > Decode(ret.out.olderLong.bits)
    /\ Decode(ret.out.olderLong.bits) > 0

\* ------------------------------------------------------------ C11
\* a finished call of CalculateNextWorkRequired that retargeted
LegacyRetarget ==
    /\ ret.op = "CalculateNextWorkRequired"
    /\ ret.out.path \in {"pre", "post"}

MeasuredSpacing == chain[Len(chain)].nTime - ret.arg

UpperBound ==
    LET nHeight == TipHeight(chain) + 1
    IN  TargetSpacing(DefaultParams, nHeight)
            * (IF nHeight < DefaultParams.QIP9Height THEN 10 ELSE 20)

Max(a, b) == IF a > b THEN a ELSE b

\* C11 as stated: the spacing used in the blend is
\* min(max(measured, 0), upperBound), upperBound being 10 target spacings below
\* QIP9Height and 20 from it on; a negative measured spacing is used as 0
C11_NegativeSpacingAsZero ==
    LegacyRetarget => ret.out.sum = Min(Max(MeasuredSpacing, 0), UpperBound)

\* C11 amended: a negative measured spacing is replaced by the target spacing,
\* any other by min(measured, upperBound) with the same upper bound
C11_NegativeSpacingAsTarget ==
    LegacyRetarget =>
        ret.out.sum = IF MeasuredSpacing < 0
                      THEN TargetSpacing(DefaultParams, TipHeight(chain) + 1)
                      ELSE Min(MeasuredSpacing, UpperBound)

\* a retarget with a negative measured spacing from QIP9Height on
C11_Witness ==
    /\ LegacyRetarget
    /\ ret.out.path = "post"
    /\ MeasuredSpacing < 0

\* ------------------------------------------------------------ C12
\* a finished proof-of-stake call of Lwma3CalculateNextWorkRequired that took
\* the bootstrap fallback and blended
EmaFallback ==
    /\ ret.op = "Lwma3"
    /\ ret.fPoS
    /\ ret.out.err = "none"
    /\ ret.out.path = "ema"

\* the most recent proof-of-stake block and the one before it
FallbackPrev == GetLastBlockIndex(chain, TipHeight(chain), TRUE)
FallbackPrevPrev == GetLastBlockIndex(chain, FallbackPrev - 1, TRUE)

\* parameters under which every height of the chain is below QIP9Height
PreThresholdParams ==
    [DefaultParams EXCEPT !.QIP9Height = MaxHeight + 2,
                          !.nReduceBlocktimeHeight = MaxHeight + 2]

\* C12: the bits returned by the proof-of-stake bootstrap fallback of
\* Lwma3CalculateNextWorkRequired equal the bits CalculateNextWorkRequired
\* returns under its rule below QIP9Height, called with the most recent
\* proof-of-stake block as previous block and the time of the proof-of-stake
\* block before it as first block time
C12_FallbackIsLegacy ==
    EmaFallback =>
        ret.out.bits =
            CalculateNextWorkRequired(chain, FallbackPrev,
                GetAncestor(chain, FallbackPrevPrev).nTime,
                PreThresholdParams, TRUE).bits

\* ------------------------------------------------------------ seed selector, one caller
InitSeed ==
    /\ chain = <<Genesis(LimitBits)>>
    /\ ret = Idle
    /\ seedParams \in SeedConfigs
    /\ SeedSelectorInit
    /\ HashEngineInit

\* GetRandomXSeed(nHeight) called and run to completion
CallGetRandomXSeed ==
    /\ ret.op = "none"
    /\ \E nHeight \in SeedHeights :
       \E o \in GetRandomXSeed(current_key_block, nHeight, seedParams, forks) :
          /\ current_key_block' = o.key
          /\ ret' = Call("GetRandomXSeed", FALSE, FALSE, FALSE, nHeight, 0, o)
    /\ UNCHANGED <<chain, seedParams, forks, seedSeen, seedPrev,
                   seedPc, seedLoc, cs_main, hashVars>>

\* the most recent MaxSeen entries of a list of returned calls
LastSeen(log) ==
    IF Len(log) > MaxSeen THEN SubSeq(log, Len(log) - MaxSeen + 1, Len(log))
    ELSE log

\* the caller takes the seed; a call that trapped has ended the process
ReturnSeed ==
    /\ ret.op = "GetRandomXSeed"
    /\ ret.out.err = "none"
    /\ seedSeen' = LastSeen(Append(seedSeen,
                                   [h |-> ret.arg, seed |-> ret.out.seed]))
    /\ seedPrev' = [h |-> ret.arg, idx |-> ret.out.idx, seed |-> ret.out.seed,
                    read |-> ret.out.read, replaced |-> FALSE]
    /\ ret' = Idle
    /\ UNCHANGED <<chain, seedParams, forks, current_key_block,
                   seedPc, seedLoc, cs_main, hashVars>>

\* the active chain is replaced from a height on by another branch; what
\* callers saw before is about a chain that is gone
Reorg ==
    /\ ret.op = "none"
    /\ Len(forks) < MaxReorgs
    /\ \A t \in SeedThreads : seedPc[t] = "idle"
    /\ \E r \in ReorgHeights :
          /\ forks' = Append(forks, r)
          /\ seedPrev' = [seedPrev EXCEPT
                 !.replaced = @ \/ (seedPrev.read /\ r <= seedPrev.idx)]
    /\ seedSeen' = <<>>
    /\ UNCHANGED <<chain, ret, seedParams, current_key_block,
                   seedPc, seedLoc, cs_main, hashVars>>

NextSeed ==
    \/ CallGetRandomXSeed
    \/ ReturnSeed
    \/ Reorg

SpecSeed == InitSeed /\ [][NextSeed]_vars

\* ------------------------------------------------------------ C13
SeedReturned == ret.op = "GetRandomXSeed"

\* C13: for every height below SeedStartingHeight, GetRandomXSeed returns the
\* hash of the genesis block, without failing, whatever calls were made before
C13_GenesisBelowStart ==
    (SeedReturned /\ ret.arg < seedParams.RX2SeedHeight) =>
        (ret.out.err = "none" /\ ret.out.seed = GenesisHash)

\* ------------------------------------------------------------ C14
\* the first height of the window the claim selects for a height: the window
\* containing it when its offset is past SwitchKey, the one before otherwise
WindowFirst(nHeight, p) ==
    LET offset == nHeight % p.RX2SeedInterval
    IN  IF offset > SwitchKey(p) THEN nHeight - offset
        ELSE nHeight - offset - p.RX2SeedInterval

\* C14: for every height h >= SeedStartingHeight + SeedInterval,
\* GetRandomXSeed returns the hash of the block the active chain has at the
\* first height of the window containing h when h is past the offset
\* SwitchKey in its window, and at the first height of the window before
\* otherwise; never the hash of a block at another height
C14_BlockAtWindowStart ==
    (SeedReturned
        /\ ret.arg >= seedParams.RX2SeedHeight + seedParams.RX2SeedInterval) =>
        /\ ret.out.err = "none"
        /\ ret.out.seed = ChainActiveAt(forks, WindowFirst(ret.arg, seedParams))

\* ------------------------------------------------------------ C15
\* the window of a height, and whether the height is past SwitchKey in it
SeedWindow(nHeight) == nHeight \div seedParams.RX2SeedInterval
InsideWindow(nHeight) ==
    nHeight % seedParams.RX2SeedInterval > SwitchKey(seedParams)

\* C15: while the active chain does not change, GetRandomXSeed called with a
\* height it was called with before returns the seed it returned then,
\* whatever heights were asked for in between; and with SeedInterval 100 and
\* SeedStartingHeight 1000, calls for heights inside three consecutive
\* windows from the seeding start on return three pairwise distinct seeds
C15_SameHeightSameSeed ==
    SeedReturned =>
        /\ \A i \in 1..Len(seedSeen) :
              seedSeen[i].h = ret.arg =>
                  (ret.out.err = "none" /\ ret.out.seed = seedSeen[i].seed)
        /\ (/\ seedParams = SeedParams(1000, 100)
            /\ Len(seedSeen) = 2
            /\ seedSeen[1].h >= seedParams.RX2SeedHeight
            /\ InsideWindow(seedSeen[1].h)
            /\ InsideWindow(seedSeen[2].h)
            /\ InsideWindow(ret.arg)
            /\ SeedWindow(seedSeen[2].h) = SeedWindow(seedSeen[1].h) + 1
            /\ SeedWindow(ret.arg) = SeedWindow(seedSeen[1].h) + 2)
           => /\ ret.out.err = "none"
              /\ seedSeen[1].seed # seedSeen[2].seed
              /\ seedSeen[1].seed # ret.out.seed
              /\ seedSeen[2].seed # ret.out.seed

\* ------------------------------------------------------------ C16
\* a call that follows a call of the same window and the same seed height,
\* the block at that height having been replaced in between
SecondCallAfterReorg ==
    /\ SeedReturned
    /\ seedPrev.read
    /\ seedPrev.replaced
    /\ SeedWindow(ret.arg) = SeedWindow(seedPrev.h)
    /\ ret.out.idx = seedPrev.idx

\* C16 as stated: the cached seed is recomputed only when the height crosses
\* into a new window, so the second call does not read the chain again and
\* returns the seed of the first call, the hash of the replaced block
C16_StaleAfterReorg ==
    SecondCallAfterReorg => ret.out.seed = seedPrev.seed

\* C16 amended: the second call reads the active chain again and returns the
\* hash of the block that is at the seed height now, not the seed of the
\* first call
C16_FreshAfterReorg ==
    SecondCallAfterReorg =>
        /\ ret.out.err = "none"
        /\ ret.out.read
        /\ ret.out.seed = BlockHash(ret.out.idx, Branch(forks, ret.out.idx))
        /\ ret.out.seed # seedPrev.seed

\* two calls for the same height around a reorganisation of the seed height
C16_Witness ==
    /\ SecondCallAfterReorg
    /\ ret.arg = seedPrev.h

\* ------------------------------------------------------------ seed selector, two callers
\* Each thread runs GetRandomXSeed statement by statement.  A uint256 is
\* copied half by half; LOCK(cs_main) covers the block it opens (lines 17-18,
\* 27-28, 32-33) and nothing else.
SeedAlive == \A t \in SeedThreads : seedPc[t] # "trapped"

SeedStep(t, pc1, loc1) ==
    /\ seedPc' = [seedPc EXCEPT ![t] = pc1]
    /\ seedLoc' = [seedLoc EXCEPT ![t] = loc1]

SeedKeep == UNCHANGED <<chain, ret, seedParams, seedSeen, seedPrev, hashVars>>

\* the call begins
SeedEnter(t) ==
    /\ SeedAlive
    /\ seedPc[t] = "idle"
    /\ \E nHeight \in SeedHeightsMT :
          SeedStep(t, "test",
                   [NoSeedLocals EXCEPT !.nHeight = nHeight, !.since = Len(forks)])
    /\ SeedKeep
    /\ UNCHANGED <<forks, current_key_block, cs_main>>

\* line 16: current_key_block == uint256(), read without a lock
SeedTest(t) ==
    /\ SeedAlive
    /\ seedPc[t] = "test"
    /\ SeedStep(t, IF current_key_block = ZeroHash THEN "lock_genesis" ELSE "select",
                seedLoc[t])
    /\ SeedKeep
    /\ UNCHANGED <<forks, current_key_block, cs_main>>

\* line 17: LOCK(cs_main), and the genesis hash is fetched
SeedLockGenesis(t) ==
    /\ SeedAlive
    /\ seedPc[t] = "lock_genesis"
    /\ cs_main = NoThread
    /\ cs_main' = t
    /\ SeedStep(t, "genesis_lo", [seedLoc[t] EXCEPT !.block = GenesisHash])
    /\ SeedKeep
    /\ UNCHANGED <<forks, current_key_block>>

\* lines 18, 28, 33: the first half of the assignment to the static
SeedWriteLo(t) ==
    /\ SeedAlive
    /\ seedPc[t] \in {"genesis_lo", "key_lo"}
    /\ current_key_block' = <<seedLoc[t].block[1], current_key_block[2]>>
    /\ SeedStep(t, IF seedPc[t] = "genesis_lo" THEN "genesis_hi" ELSE "key_hi",
                seedLoc[t])
    /\ SeedKeep
    /\ UNCHANGED <<forks, cs_main>>

\* the second half, and the end of the locked block (lines 19, 29, 34)
SeedWriteHi(t) ==
    /\ SeedAlive
    /\ seedPc[t] \in {"genesis_hi", "key_hi"}
    /\ current_key_block' = <<current_key_block[1], seedLoc[t].block[2]>>
    /\ cs_main' = NoThread
    /\ SeedStep(t, IF seedPc[t] = "genesis_hi" THEN "select" ELSE "return_lo",
                seedLoc[t])
    /\ SeedKeep
    /\ UNCHANGED forks

\* lines 20-26, 30-31: the index is computed from the argument
SeedSelect(t) ==
    /\ SeedAlive
    /\ seedPc[t] = "select"
    /\ LET sel == SeedIndex(seedLoc[t].nHeight, seedParams)
       IN  SeedStep(t, IF sel.read THEN "lock_read" ELSE "return_lo",
                    [seedLoc[t] EXCEPT !.read = sel.read, !.idx = sel.idx])
    /\ SeedKeep
    /\ UNCHANGED <<forks, current_key_block, cs_main>>

\* lines 27-28, 32-33: LOCK(cs_main) and the block is looked up; through a
\* null block pointer the call traps or goes on with whatever the load finds
SeedLockRead(t) ==
    /\ SeedAlive
    /\ seedPc[t] = "lock_read"
    /\ cs_main = NoThread
    /\ cs_main' = t
    /\ LET block == ChainActiveAt(forks, seedLoc[t].idx)
       IN  IF block = NullBlock
           THEN \/ SeedStep(t, "trapped", seedLoc[t])
                \/ SeedStep(t, "key_lo", [seedLoc[t] EXCEPT !.block = GarbageHash])
           ELSE SeedStep(t, "key_lo", [seedLoc[t] EXCEPT !.block = block])
    /\ SeedKeep
    /\ UNCHANGED <<forks, current_key_block>>

\* line 37: return current_key_block, copied without a lock, first half
SeedReturnLo(t) ==
    /\ SeedAlive
    /\ seedPc[t] = "return_lo"
    /\ SeedStep(t, "return_hi", [seedLoc[t] EXCEPT !.lo = current_key_block[1]])
    /\ SeedKeep
    /\ UNCHANGED <<forks, current_key_block, cs_main>>

\* line 37, second half: the caller has the seed
SeedReturnHi(t) ==
    /\ SeedAlive
    /\ seedPc[t] = "return_hi"
    /\ SeedStep(t, "done", [seedLoc[t] EXCEPT !.hi = current_key_block[2]])
    /\ SeedKeep
    /\ UNCHANGED <<forks, current_key_block, cs_main>>

\* the caller uses the seed
SeedDone(t) ==
    /\ SeedAlive
    /\ seedPc[t] = "done"
    /\ SeedStep(t, "idle", NoSeedLocals)
    /\ SeedKeep
    /\ UNCHANGED <<forks, current_key_block, cs_main>>

\* another thread changes the tip: the active chain is replaced from a height
\* on, under cs_main
ReorgUnderLock ==
    /\ SeedAlive
    /\ cs_main = NoThread
    /\ Len(forks) < MaxReorgs
    /\ \E r \in ReorgHeights : forks' = Append(forks, r)
    /\ UNCHANGED <<chain, ret, seedParams, current_key_block, seedSeen, seedPrev,
                   seedPc, seedLoc, cs_main, hashVars>>

NextSeedMT ==
    \/ \E t \in SeedThreads :
          \/ SeedEnter(t)
          \/ SeedTest(t)
          \/ SeedLockGenesis(t)
          \/ SeedWriteLo(t)
          \/ SeedWriteHi(t)
          \/ SeedSelect(t)
          \/ SeedLockRead(t)
          \/ SeedReturnLo(t)
          \/ SeedReturnHi(t)
          \/ SeedDone(t)
    \/ ReorgUnderLock

SpecSeedMT == InitSeed /\ [][NextSeedMT]_vars

\* ------------------------------------------------------------ C17
\* the hashes the block at a height had on the versions of the active chain
\* from the since-th reorganisation to now
HashesSince(height, since) ==
    {BlockHash(height, Branch(SubSeq(forks, 1, k), height)) : k \in since..Len(forks)}

\* C17: in every interleaving of two threads calling GetRandomXSeed and of a
\* thread changing the tip, a call that selected a block of the active chain
\* returns the hash that block had in one state of the chain during the call:
\* the seed selected for its own height, never the one a concurrent call
\* selected and never a mix of two
C17_OwnSeedReturned ==
    \A t \in SeedThreads :
        (/\ seedPc[t] = "done"
         /\ seedLoc[t].read
         /\ ChainActiveAt(forks, seedLoc[t].idx) # NullBlock)
        => <<seedLoc[t].lo, seedLoc[t].hi>>
               \in HashesSince(seedLoc[t].idx, seedLoc[t].since)

\* ------------------------------------------------------------ hash engine, two callers
HashKeep == UNCHANGED <<chain, ret, seedVars>>

HashStep(t, pc1, loc1) ==
    /\ hashPc' = [hashPc EXCEPT ![t] = pc1]
    /\ hashLoc' = [hashLoc EXCEPT ![t] = loc1]

\* rx_slow_hash(data, hash, length, seedhash) or rx_slow_hash2(...) is called
\* and passes ENTER_CRITICAL_SECTION(cs_randomx) (lines 12, 56)
HashEnter(t) ==
    /\ hashPc[t] = "idle"
    /\ CanEnter(cs_randomx, t)
    /\ cs_randomx' = t
    /\ \E e \in Engines, data \in HashData, seedhash \in HashSeeds :
          /\ HashStep(t, "init",
                 [NoHashLocals EXCEPT !.engine = e, !.data = data,
                                      !.seedhash = seedhash,
                                      !.first = (hashPrev[e] = NoHashCall),
                                      !.prevSeed = hashPrev[e].seed,
                                      !.prevData = hashPrev[e].data,
                                      !.prevHash = hashPrev[e].hash])
          /\ hashPrev' = [hashPrev EXCEPT ![e] =
                 [seed |-> seedhash, data |-> data, hash |-> ZeroOut]]
    /\ UNCHANGED rx
    /\ HashKeep

\* lines 21-35, 67-80
HashInit(t) ==
    /\ hashPc[t] = "init"
    /\ LET l == hashLoc[t]
       IN  rx' = [rx EXCEPT ![l.engine] = InitContext(l.engine, @, l.seedhash)]
    /\ HashStep(t, "rotate", hashLoc[t])
    /\ UNCHANGED <<hashPrev, cs_randomx>>
    /\ HashKeep

\* lines 36-46, 81-92
HashRotate(t) ==
    /\ hashPc[t] = "rotate"
    /\ LET l == hashLoc[t]
       IN  /\ rx' = [rx EXCEPT ![l.engine] = RotateContext(@, l.seedhash)]
           /\ HashStep(t, "compute",
                  [l EXCEPT !.rebuilt =
                       SeedChanged(rx[l.engine].randomx_seed2, l.seedhash)])
    /\ UNCHANGED <<hashPrev, cs_randomx>>
    /\ HashKeep

\* line 47 of rx_slow_hash: the hash is computed; lines 96-103 of
\* rx_slow_hash2: it is copied from the memo when the bytes compared are those
\* of the memo, and computed and memoised otherwise
HashCompute(t) ==
    /\ hashPc[t] = "compute"
    /\ LET l  == hashLoc[t]
           st == rx[l.engine]
       IN  IF l.engine = "rx_slow_hash"
           THEN /\ st.rx_vm.live
                /\ HashStep(t, "leave",
                       [l EXCEPT !.hash = RxHash(st.rx_vm, l.data),
                                 !.computed = TRUE])
                /\ UNCHANGED rx
           ELSE \E view \in MemoViews(l.data) :
                   IF view = st.old_data
                   THEN /\ HashStep(t, "leave", [l EXCEPT !.hash = st.old_hash])
                        /\ UNCHANGED rx
                   ELSE /\ st.rx_vm.live
                        /\ HashStep(t, "leave",
                               [l EXCEPT !.hash = RxHash(st.rx_vm, l.data),
                                         !.computed = TRUE])
                        /\ rx' = [rx EXCEPT ![l.engine] =
                               [st EXCEPT !.old_data = view,
                                          !.old_hash = RxHash(st.rx_vm, l.data)]]
    /\ UNCHANGED <<hashPrev, cs_randomx>>
    /\ HashKeep

\* LEAVE_CRITICAL_SECTION(cs_randomx) (lines 49, 104) and the return
HashLeave(t) ==
    /\ hashPc[t] = "leave"
    /\ cs_randomx' = NoThread
    /\ HashStep(t, "done", NoHashLocals)
    /\ hashPrev' = [hashPrev EXCEPT ![hashLoc[t].engine].hash = hashLoc[t].hash]
    /\ UNCHANGED rx
    /\ HashKeep

\* the caller uses the hash
HashDone(t) ==
    /\ hashPc[t] = "done"
    /\ HashStep(t, "idle", NoHashLocals)
    /\ UNCHANGED <<rx, hashPrev, cs_randomx>>
    /\ HashKeep

NextHash ==
    \E t \in HashThreads :
        \/ HashEnter(t)
        \/ HashInit(t)
        \/ HashRotate(t)
        \/ HashCompute(t)
        \/ HashLeave(t)
        \/ HashDone(t)

SpecHash == Init /\ [][NextHash]_vars

\* ------------------------------------------------------------ C18
\* a call that has run every statement of its critical section
HashFinished(t) == hashPc[t] = "leave"

\* C18: for rx_slow_hash and rx_slow_hash2 alike, in every sequence of calls
\* the first call builds a cache and a machine for the seed requested; a
\* later call destroys and rebuilds them exactly when its seed differs from
\* the seed of the call before, never when it is the same; and whenever the
\* hash is computed, the live cache was initialised with the seed of the call
C18_ContextFollowsSeed ==
    \A t \in HashThreads :
        HashFinished(t) =>
            LET l  == hashLoc[t]
                st == rx[l.engine]
            IN  /\ st.cache = Handle(l.seedhash, KeySize)
                /\ st.rx_vm = Handle(l.seedhash, KeySize)
                /\ l.first => ~l.rebuilt
                /\ ~l.first => (l.rebuilt <=> l.prevSeed # l.seedhash)
                /\ l.computed => l.hash = <<l.seedhash, KeySize, l.data>>

\* a later call of each kind: one with another seed, one with the same seed
C18_Witness ==
    \E t \in HashThreads :
        /\ HashFinished(t)
        /\ ~hashLoc[t].first
        /\ hashLoc[t].rebuilt
        /\ hashLoc[t].computed
        /\ hashLoc[t].engine = "rx_slow_hash2"

\* ------------------------------------------------------------ C19
InSection(t) == hashPc[t] \in {"init", "rotate", "compute", "leave"}

\* C19: every step of a call (building, rotating, computing, the memo) runs
\* while the caller holds cs_randomx, so at most one thread is inside either
\* function at a time, and a call that has returned does not hold the lock
C19_OneThreadInSection ==
    /\ \A t \in HashThreads : InSection(t) => cs_randomx = t
    /\ \A t \in HashThreads : ~InSection(t) => cs_randomx # t
    /\ Cardinality({t \in HashThreads : InSection(t)}) <= 1

\* a call has returned and the other thread is inside a function
C19_Witness ==
    \E t \in HashThreads, u \in HashThreads :
        /\ hashPc[t] = "done"
        /\ hashPc[u] = "compute"

\* ------------------------------------------------------------ C20
\* C20: a call of rx_slow_hash2 that follows a call with another seed and
\* byte-for-byte the same data returns the hash of the data under its own
\* seed, not the hash memoised under the seed of the call before
C20_MemoDroppedOnRebuild ==
    \A t \in HashThreads :
        (/\ HashFinished(t)
         /\ hashLoc[t].engine = "rx_slow_hash2"
         /\ ~hashLoc[t].first
         /\ hashLoc[t].prevSeed # hashLoc[t].seedhash
         /\ hashLoc[t].prevData = hashLoc[t].data)
        => hashLoc[t].hash =
               RxHash(Handle(hashLoc[t].seedhash, KeySize), hashLoc[t].data)

\* ------------------------------------------------------------ C21
\* a call of rx_slow_hash2 with the seed and the bytes of the call before
RepeatedCall(t) ==
    /\ HashFinished(t)
    /\ hashLoc[t].engine = "rx_slow_hash2"
    /\ ~hashLoc[t].first
    /\ hashLoc[t].prevSeed = hashLoc[t].seedhash
    /\ hashLoc[t].prevData = hashLoc[t].data

\* C21: a call of rx_slow_hash2 with the same seed and byte-for-byte the same
\* input as the call before returns the output of that call and does not
\* invoke randomx_calculate_hash again, whatever the length of the input
C21_RepeatNotRecomputed ==
    \A t \in HashThreads :
        RepeatedCall(t) =>
            (~hashLoc[t].computed /\ hashLoc[t].hash = hashLoc[t].prevHash)

\* ------------------------------------------------------------ C22
\* the hash functions when the library may return no cache or no machine

\* lines 22-36, 68-82: the first use, randomx_alloc_cache or
\* randomx_create_vm returning a null pointer
HashInitFail(t) ==
    /\ hashPc[t] = "init"
    /\ LET l == hashLoc[t]
       IN  /\ \E okCache \in BOOLEAN, okVm \in BOOLEAN :
                 LET st == InitContextWith(l.engine, rx[l.engine], l.seedhash,
                                           okCache, okVm)
                 IN  /\ st # InitContext(l.engine, rx[l.engine], l.seedhash)
                     /\ rx' = [rx EXCEPT ![l.engine] = st]
           /\ HashStep(t, "rotate", [l EXCEPT !.allocFailed = TRUE])
    /\ UNCHANGED <<hashPrev, cs_randomx>>
    /\ HashKeep

\* lines 37-47, 83-94: the rotation, randomx_alloc_cache or
\* randomx_create_vm returning a null pointer
HashRotateFail(t) ==
    /\ hashPc[t] = "rotate"
    /\ LET l == hashLoc[t]
       IN  /\ \E okCache \in BOOLEAN, okVm \in BOOLEAN :
                 LET st == RotateContextWith(rx[l.engine], l.seedhash,
                                             okCache, okVm)
                 IN  /\ st # RotateContext(rx[l.engine], l.seedhash)
                     /\ rx' = [rx EXCEPT ![l.engine] = st]
           /\ HashStep(t, "compute",
                  [l EXCEPT !.rebuilt = TRUE, !.allocFailed = TRUE])
    /\ UNCHANGED <<hashPrev, cs_randomx>>
    /\ HashKeep

\* lines 48, 100-102: randomx_calculate_hash(rx_vm, ...) with a null rx_vm,
\* when it returns
HashComputeNoVm(t) ==
    /\ hashPc[t] = "compute"
    /\ LET l  == hashLoc[t]
           st == rx[l.engine]
           s1 == [st EXCEPT !.misuse = @ \cup {"randomx_calculate_hash"}]
           l1 == [l EXCEPT !.hash = GarbageOut, !.computed = TRUE]
       IN  /\ ~st.rx_vm.live
           /\ HashStep(t, "leave", l1)
           /\ IF l.engine = "rx_slow_hash"
              THEN rx' = [rx EXCEPT ![l.engine] = s1]
              ELSE \E view \in MemoViews(l.data) :
                      /\ view # st.old_data
                      /\ rx' = [rx EXCEPT ![l.engine] =
                             [s1 EXCEPT !.old_data = view,
                                        !.old_hash = GarbageOut]]
    /\ UNCHANGED <<hashPrev, cs_randomx>>
    /\ HashKeep

\* a library primitive handed a missing handle ends the process
HashTrap(t) ==
    /\ hashPc[t] \in {"rotate", "compute", "leave"}
    /\ rx[hashLoc[t].engine].misuse # {}
    /\ HashStep(t, "trapped", hashLoc[t])
    /\ UNCHANGED <<rx, hashPrev, cs_randomx>>
    /\ HashKeep

\* the thread and the inputs of the calls made while allocations may fail
FailThreads == {1}
FailData == {<<0, 0>>, <<0, 1>>}

\* a call of HashEnter with an input of FailData
HashEnterFail(t) ==
    /\ HashEnter(t)
    /\ hashLoc'[t].data \in FailData

NextHashFail ==
    \E t \in FailThreads :
        \/ HashEnterFail(t)
        \/ HashInit(t)
        \/ HashInitFail(t)
        \/ HashRotate(t)
        \/ HashRotateFail(t)
        \/ HashCompute(t)
        \/ HashComputeNoVm(t)
        \/ HashTrap(t)
        \/ HashLeave(t)
        \/ HashDone(t)

SpecHashFail == Init /\ [][NextHashFail]_vars

\* the primitives that initialise a cache, create a machine and compute
HandleUsers ==
    {"randomx_init_cache", "randomx_create_vm", "randomx_calculate_hash"}

\* C22: when the allocation of the cache or the creation of the machine
\* returns no handle, at the first use or at a rotation, the function never
\* hands the missing handle to the cache initialisation, to the creation of
\* the machine or to the hash computation, and the call never returns a hash
C22_AllocationFailureFatal ==
    /\ \A e \in Engines : rx[e].misuse \cap HandleUsers = {}
    /\ \A t \in HashThreads : HashFinished(t) => ~hashLoc[t].allocFailed

\* ------------------------------------------------------------ C23
\* C23: after any sequence of earlier calls, of either function by either
\* thread, rx_slow_hash(data, seed) returns the hash that rx_slow_hash2_old,
\* which keeps no state, returns for the same data and seed
C23_SameAsStateless ==
    \A t \in HashThreads :
        (HashFinished(t) /\ hashLoc[t].engine = "rx_slow_hash")
        => hashLoc[t].hash =
               rx_slow_hash2_old(hashLoc[t].data, hashLoc[t].seedhash)

\* a call of rx_slow_hash that follows one with another seed, and one that
\* follows one with the same seed and other data
C23_Witness ==
    \E t \in HashThreads :
        /\ HashFinished(t)
        /\ hashLoc[t].engine = "rx_slow_hash"
        /\ ~hashLoc[t].first
        /\ hashLoc[t].prevSeed # hashLoc[t].seedhash
        /\ hashLoc[t].hash = RxHash(Handle(hashLoc[t].seedhash, KeySize),
                                    hashLoc[t].data)
        /\ rx["rx_slow_hash2"].is_init

\* ------------------------------------------------------------ C24
\* a call made with only the no-retargeting flag of the other proof kind set
OtherFlagOnly ==
    IF ret.fPoS THEN ret.powNoRet /\ ~ret.posNoRet
    ELSE ret.posNoRet /\ ~ret.powNoRet

\* C24: Lwma3CalculateNextWorkRequired called for one proof kind with only
\* the no-retargeting flag of the other kind set returns what it returns with
\* no flag set
C24_OtherFlagIgnored ==
    (ret.op = "Lwma3" /\ OtherFlagOnly)
    => LET out == Lwma3CalculateNextWorkRequired(chain, TipHeight(chain),
                      ConsensusParams(FALSE, FALSE), ret.fPoS)
       IN  ret.out.err = out.err /\ ret.out.bits = out.bits

\* ------------------------------------------------------------ C25
\* the call returned from the LWMA computation
LwmaReturned == ret.op = "Lwma3" /\ ret.out.err = "none" /\ ret.out.path = "lwma"

\* the rounds of the loop of the call that returned
LwmaSteps ==
    LET params     == ConsensusParams(ret.powNoRet, ret.posNoRet)
        N          == params.lwmaAveragingWindow
        T          == params.nPowTargetSpacing
        k          == (N * (N + 1) * T) \div 2
        h          == TipHeight(chain)
        mapContext == GetContextLWMA(chain, h, N + 1, ret.fPoS)
        first      == GetAncestor(chain, mapContext[N + 1])
    IN  LwmaLoop(chain, mapContext, N, T, k, N, first.nTime, 0, 0, 0).steps

WindowReturned ==
    ret.op = "Window" /\ ret.out.err = "none" /\ ret.out.path = "lwma"

\* the rounds of the loop over that window
WindowSteps ==
    LET N          == DefaultParams.lwmaAveragingWindow
        T          == DefaultParams.nPowTargetSpacing
        k          == (N * (N + 1) * T) \div 2
        c          == WindowChain(ret.fPoS, ret.arg2, ret.arg.st)
        mapContext == GetContextLWMA(c, N + 1, N + 1, ret.fPoS)
        first      == GetAncestor(c, mapContext[N + 1])
    IN  LwmaLoop(c, mapContext, N, T, k, N, first.nTime, 0, 0, 0).steps

\* no target of the window exceeds the proof limit
WindowWithinLimit ==
    \A n \in 1..Len(WindowSteps) : WindowSteps[n].target <= ret.arg.limit

\* neither an addition to avgTarget nor the product avgTarget *
\* sumWeightedSolvetimes leaves the width of the integer
WindowNoOverflow ==
    LET N == DefaultParams.lwmaAveragingWindow
        T == DefaultParams.nPowTargetSpacing
        k == (N * (N + 1) * T) \div 2
    IN  /\ \A n \in 1..Len(WindowSteps) :
              WindowSteps[n].avg + TargetTerm(WindowSteps[n].target, N, k)
                  < Modulus
        /\ \/ ret.out.sum = 0
           \/ ret.out.avg <= (Modulus - 1) \div ret.out.sum

BelowLimit ==
    /\ ret.op = "Retarget"
    /\ ret.out.path \in {"pre", "post"}
    /\ Decode(ret.out.bits) < GetLimit(ret.arg.h + 1, DefaultParams, ret.fPoS)

\* C28: CalculateNextWorkRequired moves the target toward the target spacing
\* on both sides of QIP9Height whenever its result is below the limit: a
\* measured spacing equal to the target spacing leaves the previous target, a
\* larger one returns a target that is not smaller, a smaller one a target
\* that is not larger
C28_TowardTargetSpacing ==
    BelowLimit =>
        LET T        == TargetSpacing(DefaultParams, ret.arg.h + 1)
            previous == Decode(ret.arg2)
            returned == Decode(ret.out.bits)
        IN  /\ ret.arg.spacing = T => returned = previous
            /\ ret.arg.spacing > T => returned >= previous
            /\ ret.arg.spacing < T => returned <= previous

\* a retarget from QIP9Height on, its measured spacing below the target
\* spacing, that lowered the target
C28_Witness ==
    /\ BelowLimit
    /\ ret.out.path = "post"
    /\ ret.arg.spacing >= 0
    /\ ret.arg.spacing < TargetSpacing(DefaultParams, ret.arg.h + 1)
    /\ Decode(ret.out.bits) < Decode(ret.arg2)

\* ------------------------------------------------------------ C27
\* a call of rx_slow_hash2 that returned the memoised hash
MemoServed(t) ==
    /\ HashFinished(t)
    /\ hashLoc[t].engine = "rx_slow_hash2"
    /\ ~hashLoc[t].computed

\* C27: rx_slow_hash2 returns the memoised hash only when an earlier call
\* computed a hash for an input with the same bytes over its whole length:
\* never on the first call, never for an input that differs in a byte or in
\* its length from the one the memoised hash was computed for
C27_MemoOnlyForSameInput ==
    \A t \in HashThreads :
        MemoServed(t) =>
            /\ ~hashLoc[t].first
            /\ \E seed \in HashSeeds :
                  hashLoc[t].hash =
                      RxHash(Handle(seed, KeySize), hashLoc[t].data)

\* ------------------------------------------------------------ C29
\* a proof-of-stake retarget past the bootstrap period
StakeRetarget ==
    /\ ret.op = "Kinds"
    /\ ret.fPoS
    /\ ~InBootstrap(Len(ret.arg), DefaultParams.lwmaAveragingWindow)

\* the window sampled for that retarget
StakeWindow ==
    GetContextLWMA(KindsChain(ret.arg), Len(ret.arg),
                   DefaultParams.lwmaAveragingWindow + 1, TRUE)

\* C29: for proof of stake, whenever the window sampled holds fewer than
\* N + 1 blocks, CountPoS is at most N + 1 and the EMA fallback is taken; the
\* LWMA loop is reached only with a window that holds index N + 1
C29_ShortWindowTakesFallback ==
    StakeRetarget =>
        LET N == DefaultParams.lwmaAveragingWindow
        IN  /\ MapSize(StakeWindow) < N + 1 =>
                  /\ CountPoS(KindsChain(ret.arg), Len(ret.arg), 0) <= N + 1
                  /\ ret.out.err = "none"
                  /\ ret.out.path \in {"first", "second", "ema"}
            /\ ret.out.path = "lwma" =>
                  /\ (N + 1) \in DOMAIN StakeWindow
                  /\ ret.out.err = "none"

\* a chain of more than N + 1 blocks above the genesis block of which fewer
\* than N + 1 are proof-of-stake blocks, the tip among them
C29_Witness ==
    /\ StakeRetarget
    /\ Len(ret.arg) > DefaultParams.lwmaAveragingWindow + 1
    /\ ret.arg[Len(ret.arg)]
    /\ MapSize(StakeWindow) = DefaultParams.lwmaAveragingWindow
    /\ ret.out.path = "ema"

\* ------------------------------------------------------------ C30
\* a call of the function has run its first-use block
EngineCalled(e) ==
    /\ hashPrev[e] # NoHashCall
    /\ \A t \in HashThreads :
          ~(hashPc[t] = "init" /\ hashLoc[t].engine = e)

\* C30: once a hash function has been called it holds exactly one live cache
\* and one live machine, those its statics point to; randomx_destroy_vm and
\* randomx_release_cache are only ever given the live handle, and a new cache
\* and machine are in place before the next use: nothing is released twice,
\* used after its release, or left behind
C30_OneLiveContext ==
    \A e \in Engines :
        /\ rx[e].misuse = {}
        /\ rx[e].caches <= 1
        /\ rx[e].vms <= 1
        /\ EngineCalled(e) =>
              /\ rx[e].caches = 1
              /\ rx[e].vms = 1
              /\ rx[e].cache.live
              /\ rx[e].rx_vm.live

\* both functions have been called and a call has just rebuilt its context
C30_Witness ==
    /\ \A e \in Engines : EngineCalled(e)
    /\ \E t \in HashThreads : HashFinished(t) /\ hashLoc[t].rebuilt

====
